---- MODULE Spec2Model ----
(***************************************************************************)
(* ObjectStorePreview (object_store_preview.go): the adapter that maps the *)
(* object-store operations of the backup pipeline onto the blob service.   *)
(*                                                                         *)
(* The adapter's own state is the pair of pointers (pipeline, service).    *)
(* The blob service the SDK talks to is modelled as one existing container *)
(* holding block blobs with their snapshots; every remote call may also    *)
(* fail (transport error or a service error status).  A nil pointer        *)
(* dereference is a Go panic: the process stops (crashed).                 *)
(*                                                                         *)
(* Strings that the code inspects character by character (blob names,      *)
(* prefixes, the storage-account name) are sequences of character codes.   *)
(***************************************************************************)
EXTENDS Integers, Sequences, FiniteSets, TLC

VARIABLES
    pipeline,   \* o.pipeline: 0 (nil) or the id of the pipeline Init allocated
    service,    \* o.service:  0 (nil) or the id of the ServiceURL Init allocated
    allocs,     \* number of handles allocated so far (ids are 1..allocs)
    crashed,    \* TRUE once a call has panicked
    blobs,      \* the container's blobs: name -> [present, content, snapshots]
    written,    \* history: name -> what the adapter's last successful Put/Delete left
    last,       \* the call that returned (or panicked) last, with its result
    lst         \* the frame of the ListObjects call in progress / returned last

vars == <<pipeline, service, allocs, crashed, blobs, written, last, lst>>

\* ------------------------------------------------------------------ bounds

MaxInits == 2
MaxLen == 1
PageSize == 2

\* --------------------------------------------------------------- constants

NilPtr == 0
StatusNotFound == 404
DownloadOffset == 0
CountToEnd == 0

\* ------------------------------------------------------------- input sets

\* the four keys Init passes to ValidateObjectStoreConfigKeys, and one other key
ValidKeys == {"resource-group", "storage-account", "subscription-id", "storage-account-key-env-var"}
AllKeys == ValidKeys \cup {"other-key"}

\* storage-account names: "ac" and "a c"
Accounts == {<<97, 99>>, <<97, 32, 99>>}

\* the environment variable the config names: unset, a base64 key, not base64
EnvVals == {"unset", "base64", "garbage"}

\* "backups" is a container of the account, "nobucket" is not
Buckets == {"backups", "nobucket"}

\* blob names "a", "ab", "ba"
KeyNames == {<<97>>, <<97, 98>>, <<98, 97>>}

\* prefixes "", "a", "ab", "b", "c"
Prefixes == {<<>>, <<97>>, <<97, 98>>, <<98>>, <<99>>}

ByteVals == {0, 255}

RECURSIVE SeqsUpTo(_, _)
SeqsUpTo(S, n) ==
    IF n = 0 THEN {<<>>}
    ELSE LET shorter == SeqsUpTo(S, n - 1)
         IN  shorter \cup {Append(s, x) : s \in shorter, x \in S}

Contents == SeqsUpTo(ByteVals, MaxLen)

\* what a remote call can run into: nothing, a transport error (an error that
\* is no azblob.StorageError), a refusal or a failure of the service
\* (StorageError, status 403 or 500)
Faults == {"none", "net", "auth", "server"}

\* ------------------------------------------------------------------ errors

NoErr == [kind |-> "nil", status |-> 0]
StorageError(code) == [kind |-> "storage", status |-> code]
OtherError(what) == [kind |-> what, status |-> 0]

\* the error a faulty remote call returns
FaultError(f) ==
    CASE f = "net" -> OtherError("net")
      [] f = "auth" -> StorageError(403)
      [] f = "server" -> StorageError(500)

\* ------------------------------------------------------------------ config

ConfigOf(K, account) ==
    [k \in K |-> IF k = "storage-account" THEN account ELSE <<120>>]

\* configs lacking at most one of the four keys, with or without the other key
ConfigKeySets == {K \in SUBSET AllKeys : Cardinality(ValidKeys \ K) <= 1}
Configs == {ConfigOf(K, a) : K \in ConfigKeySets, a \in Accounts}

\* config[key] of a Go map: the zero value "" when the key is absent
Lookup(config, key) == IF key \in DOMAIN config THEN config[key] ELSE <<>>

\* veleroplugin.ValidateObjectStoreConfigKeys(config, validKeys...): an error
\* when config holds a key that is not among validKeys ("bucket" and "prefix"
\* are always valid); it does not look for absent keys
ValidateObjectStoreConfigKeys(config, validKeys) ==
    IF DOMAIN config \subseteq (validKeys \cup {"bucket", "prefix"})
    THEN NoErr
    ELSE OtherError("invalid keys")

\* getStorageAccountKey(config): the key held by the environment variable the
\* config names
getStorageAccountKey(config, env) ==
    IF Lookup(config, "storage-account-key-env-var") = <<>> \/ env = "unset"
    THEN [key |-> "", err |-> OtherError("no storage key")]
    ELSE [key |-> env, err |-> NoErr]

\* azblob.NewSharedKeyCredential: fails when the key is not base64
NewSharedKeyCredential(account, key) ==
    IF key = "base64" THEN NoErr ELSE OtherError("illegal base64 data")

\* the characters net/url accepts in a host name
HostCharOK(c) ==
    \/ c \in 48..57 \/ c \in 65..90 \/ c \in 97..122
    \/ c \in {45, 46, 95, 126}
    \/ c \in {33, 34, 36, 38, 39, 40, 41, 42, 43, 44, 58, 59, 60, 61, 62, 91, 93}

\* fmt.Sprintf(blob_url_suffix, account): scheme, host
BlobURL(account) ==
    [scheme |-> "https",
     host |-> account \o <<46, 98, 108, 111, 98>> \o <<46, 99, 111, 114, 101>>
              \o <<46, 119, 105, 110, 100, 111, 119, 115>> \o <<46, 110, 101, 116>>]

\* url.Parse: (u, err); u is nil exactly when err is not
UrlParse(raw) ==
    IF \A i \in 1..Len(raw.host) : HostCharOK(raw.host[i])
    THEN [u |-> raw, nil |-> FALSE, err |-> NoErr]
    ELSE [u |-> raw, nil |-> TRUE, err |-> OtherError("invalid host")]

\* ---------------------------------------------------------------- results

\* a blob: whether it is there, its bytes, whether it has snapshots
Absent == [present |-> FALSE, content |-> <<>>, snapshots |-> FALSE]

\* the record of a call: its arguments (for Init the keys of the config, its
\* storage account and the environment variable), what the remote call ran
\* into (fault), the handle held when it was made, for DeleteObject whether
\* the blob was present then (had), whether it called the service, and what
\* it returned (or that it panicked)
Call(op, bucket, key) ==
    [op |-> op, bucket |-> bucket, key |-> key, fault |-> "none",
     cfgKeys |-> {}, account |-> <<>>, env |-> "",
     handle |-> service,
     had |-> FALSE,
     remote |-> FALSE, panic |-> FALSE, returned |-> TRUE,
     probe |-> NoErr, err |-> NoErr, exists |-> FALSE, body |-> <<>>]

NoCall == [op |-> "none", bucket |-> "", key |-> <<>>, fault |-> "none",
           cfgKeys |-> {}, account |-> <<>>, env |-> "",
           handle |-> NilPtr, had |-> FALSE,
           remote |-> FALSE, panic |-> FALSE, returned |-> FALSE,
           probe |-> NoErr, err |-> NoErr, exists |-> FALSE, body |-> <<>>]

\* a nil pointer dereference: the call never returns
Panic(call) == [call EXCEPT !.panic = TRUE, !.returned = FALSE]

\* azblob.Marker: Val is nil (the zero Marker), a continuation token (here the
\* name the next page starts at) or the empty string (no more pages)
ZeroMarker == [val |-> "nil", name |-> <<>>]
MarkerAt(name) == [val |-> "token", name |-> name]
EndMarker == [val |-> "empty", name |-> <<>>]

\* Marker.NotDone: Val == nil || len(*Val) > 0
NotDone(marker) == marker.val = "nil" \/ marker.val = "token"

\* the ListObjects frame: pc (idle, loop, done), the arguments, the locals
\* marker and objects, the returned (ret, err); and the history of the call:
\* fetches issued, fetches issued when one failed (0: none failed), the names
\* the container held in server order when the call began, and whether a Put
\* or Delete has changed them since
IdleList == [pc |-> "idle", bucket |-> "", prefix |-> <<>>, marker |-> ZeroMarker,
             objects |-> <<>>, ret |-> <<>>, err |-> NoErr,
             fetches |-> 0, failedAt |-> 0, dirty |-> FALSE, listed |-> <<>>]

\* -------------------------------------------------------------------- Init

\* what Init returns for (config, env): the first failing step's error, a
\* panic where it dereferences the nil *url.URL, or nil
InitOutcome(config, env) ==
    LET verr == ValidateObjectStoreConfigKeys(config, ValidKeys)
        k == getStorageAccountKey(config, env)
        cerr == NewSharedKeyCredential(Lookup(config, "storage-account"), k.key)
        p == UrlParse(BlobURL(Lookup(config, "storage-account")))
        \* line 46 drops url.Parse's error; line 47 tests the credential's err again
        err == cerr
    IN  IF verr # NoErr THEN [panic |-> FALSE, err |-> verr]
        ELSE IF k.err # NoErr THEN [panic |-> FALSE, err |-> k.err]
        ELSE IF cerr # NoErr THEN [panic |-> FALSE, err |-> cerr]
        ELSE IF err # NoErr THEN [panic |-> FALSE, err |-> err]
        ELSE IF p.nil THEN [panic |-> TRUE, err |-> NoErr]   \* *u at line 52
        ELSE [panic |-> FALSE, err |-> NoErr]

InitCall(config, env) ==
    /\ ~crashed
    /\ allocs < MaxInits
    /\ LET out == InitOutcome(config, env)
           call == [Call("Init", "", <<>>) EXCEPT
                       !.cfgKeys = DOMAIN config,
                       !.account = Lookup(config, "storage-account"),
                       !.env = env, !.err = out.err]
       IN  IF out.panic
           THEN /\ crashed' = TRUE
                /\ last' = Panic(call)
                /\ UNCHANGED <<pipeline, service, allocs>>
           ELSE IF out.err # NoErr
           THEN /\ last' = call
                /\ UNCHANGED <<pipeline, service, allocs, crashed>>
           ELSE /\ allocs' = allocs + 1
                /\ pipeline' = allocs + 1
                /\ service' = allocs + 1
                /\ last' = call
                /\ UNCHANGED crashed
    /\ UNCHANGED <<blobs, written, lst>>

\* ------------------------------------------------------- the blob service

ContainerExists(bucket) == bucket = "backups"

\* BlobURL.GetProperties
GetProperties(bucket, key, fault) ==
    IF fault # "none" THEN FaultError(fault)
    ELSE IF ~ContainerExists(bucket) \/ ~blobs[key].present THEN StorageError(StatusNotFound)
    ELSE NoErr

\* UploadStreamToBlockBlob: reads body to its end and commits it as the blob
UploadStreamToBlockBlob(bucket, key, body, fault) ==
    IF fault # "none" THEN [err |-> FaultError(fault), blobs |-> blobs]
    ELSE IF ~ContainerExists(bucket) THEN [err |-> StorageError(StatusNotFound), blobs |-> blobs]
    ELSE [err |-> NoErr,
          blobs |-> [blobs EXCEPT ![key] = [present |-> TRUE, content |-> body,
                                            snapshots |-> blobs[key].snapshots]]]

\* BlockBlobURL.Download: the error, if any
DownloadError(bucket, key, fault) ==
    IF fault # "none" THEN FaultError(fault)
    ELSE IF ~ContainerExists(bucket) \/ ~blobs[key].present THEN StorageError(StatusNotFound)
    ELSE NoErr

Min(a, b) == IF a < b THEN a ELSE b

\* BlockBlobURL.Download(offset, count): the bytes of the range
Download(content, offset, count) ==
    IF count = CountToEnd
    THEN SubSeq(content, offset + 1, Len(content))
    ELSE SubSeq(content, offset + 1, Min(offset + count, Len(content)))

\* BlobURL.Delete(deleteOptions): with DeleteSnapshotsOptionNone the service
\* refuses (409) to delete a blob that has snapshots
Delete(bucket, key, deleteOptions, fault) ==
    IF fault # "none" THEN [err |-> FaultError(fault), blobs |-> blobs]
    ELSE IF ~ContainerExists(bucket) \/ ~blobs[key].present
    THEN [err |-> StorageError(StatusNotFound), blobs |-> blobs]
    ELSE IF deleteOptions = "none" /\ blobs[key].snapshots
    THEN [err |-> StorageError(409), blobs |-> blobs]
    ELSE IF deleteOptions = "only"
    THEN [err |-> NoErr, blobs |-> [blobs EXCEPT ![key].snapshots = FALSE]]
    ELSE [err |-> NoErr, blobs |-> [blobs EXCEPT ![key] = Absent]]

\* what the adapter's successful Put / Delete of a key leaves behind
Never == [state |-> "never", content |-> <<>>]
Wrote(body, over) == [state |-> IF over THEN "overwritten" ELSE "put", content |-> body]
Removed == [state |-> "deleted", content |-> <<>>]

\* a Put or Delete that changes which names the listed container holds makes
\* the listing in progress a listing of a changing container
Touch(bucket, after) ==
    IF lst.pc = "loop" /\ lst.bucket = bucket
       /\ {k \in KeyNames : after[k].present} # {k \in KeyNames : blobs[k].present}
    THEN [lst EXCEPT !.dirty = TRUE]
    ELSE lst

\* --------------------------------------------------------------- PutObject

PutObject(bucket, key, body, fault) ==
    /\ ~crashed
    /\ IF service = NilPtr
       THEN /\ crashed' = TRUE
            /\ last' = Panic(Call("PutObject", bucket, key))
            /\ UNCHANGED <<blobs, written, lst>>
       ELSE LET r == UploadStreamToBlockBlob(bucket, key, body, fault)
            IN  /\ blobs' = r.blobs
                /\ written' = IF r.err = NoErr
                              THEN [written EXCEPT ![key] = Wrote(body, blobs[key].present)]
                              ELSE written
                /\ lst' = Touch(bucket, r.blobs)
                /\ last' = [Call("PutObject", bucket, key) EXCEPT
                               !.fault = fault, !.remote = TRUE, !.err = r.err]
                /\ UNCHANGED crashed
    /\ UNCHANGED <<pipeline, service, allocs>>

\* ------------------------------------------------------------ ObjectExists

\* ObjectExistsReturn without the test of the status code
ObjectExistsReturnAnyStorageError(err) ==
    IF err = NoErr THEN [exists |-> TRUE, err |-> NoErr]
    ELSE IF err.kind = "storage" THEN [exists |-> FALSE, err |-> NoErr]
    ELSE [exists |-> FALSE, err |-> err]

\* lines 78-88: what ObjectExists makes of GetProperties' error
ObjectExistsReturn(err) ==
    IF err = NoErr THEN [exists |-> TRUE, err |-> err]
    ELSE IF err.kind = "storage" /\ err.status = StatusNotFound
    THEN [exists |-> FALSE, err |-> NoErr]
    ELSE [exists |-> FALSE, err |-> err]

ObjectExists(bucket, key, fault) ==
    /\ ~crashed
    /\ IF service = NilPtr
       THEN /\ crashed' = TRUE
            /\ last' = Panic(Call("ObjectExists", bucket, key))
       ELSE LET probe == GetProperties(bucket, key, fault)
                r == ObjectExistsReturn(probe)
            IN  /\ last' = [Call("ObjectExists", bucket, key) EXCEPT
                               !.fault = fault, !.remote = TRUE,
                               !.probe = probe, !.exists = r.exists, !.err = r.err]
                /\ UNCHANGED crashed
    /\ UNCHANGED <<pipeline, service, allocs, blobs, written, lst>>

\* --------------------------------------------------------------- GetObject

\* GetObjectBody with the range starting at the second byte
GetObjectBodyFromOne(content) == Download(content, 1, CountToEnd)

\* line 94: the range GetObject asks for, offset 0 to the end
GetObjectBody(content) == Download(content, DownloadOffset, CountToEnd)

GetObject(bucket, key, fault) ==
    /\ ~crashed
    /\ IF service = NilPtr
       THEN /\ crashed' = TRUE
            /\ last' = Panic(Call("GetObject", bucket, key))
       ELSE LET err == DownloadError(bucket, key, fault)
            IN  /\ last' = [Call("GetObject", bucket, key) EXCEPT
                               !.fault = fault, !.remote = TRUE, !.err = err,
                               !.body = IF err = NoErr
                                        THEN GetObjectBody(blobs[key].content)
                                        ELSE <<>>]
                /\ UNCHANGED crashed
    /\ UNCHANGED <<pipeline, service, allocs, blobs, written, lst>>

\* ------------------------------------------------------ ListCommonPrefixes

ListCommonPrefixes(bucket, prefix) ==
    /\ ~crashed
    /\ last' = Call("ListCommonPrefixes", bucket, prefix)
    /\ UNCHANGED <<pipeline, service, allocs, crashed, blobs, written, lst>>

\* ------------------------------------------------------------ DeleteObject

\* DeleteObjectReturn taking a blob that is not there for deleted
DeleteObjectReturnIgnoreNotFound(err) ==
    IF err.kind = "storage" /\ err.status = StatusNotFound THEN NoErr ELSE err

\* lines 134-137: what DeleteObject returns for Delete's error
DeleteObjectReturn(err) == err

DeleteObject(bucket, key, fault) ==
    /\ ~crashed
    /\ IF service = NilPtr
       THEN /\ crashed' = TRUE
            /\ last' = Panic(Call("DeleteObject", bucket, key))
            /\ UNCHANGED <<blobs, written, lst>>
       ELSE LET r == Delete(bucket, key, "none", fault)   \* DeleteSnapshotsOptionNone
                err == DeleteObjectReturn(r.err)
            IN  /\ blobs' = r.blobs
                /\ written' = IF err = NoErr
                              THEN [written EXCEPT ![key] = Removed]
                              ELSE written
                /\ lst' = Touch(bucket, r.blobs)
                /\ last' = [Call("DeleteObject", bucket, key) EXCEPT
                               !.fault = fault, !.remote = TRUE, !.err = err,
                               !.had = ContainerExists(bucket) /\ blobs[key].present]
                /\ UNCHANGED crashed
    /\ UNCHANGED <<pipeline, service, allocs>>

\* --------------------------------------------------------- CreateSignedURL

\* CreateSignedURL building a client of its own
CreateSignedURLNewClient(bucket, key) ==
    /\ ~crashed
    /\ allocs < MaxInits
    /\ allocs' = allocs + 1
    /\ pipeline' = allocs + 1
    /\ service' = allocs + 1
    /\ last' = [Call("CreateSignedURL", bucket, key) EXCEPT
                   !.err = OtherError("Not Implemented")]
    /\ UNCHANGED <<crashed, blobs, written, lst>>

CreateSignedURL(bucket, key) ==
    /\ ~crashed
    /\ last' = [Call("CreateSignedURL", bucket, key) EXCEPT
                   !.err = OtherError("Not Implemented")]
    /\ UNCHANGED <<pipeline, service, allocs, crashed, blobs, written, lst>>

\* ------------------------------------------------------------- ListObjects

\* s < t in the service's (lexicographic) order of names
RECURSIVE Less(_, _)
Less(s, t) ==
    IF t = <<>> THEN FALSE
    ELSE IF s = <<>> THEN TRUE
    ELSE IF Head(s) # Head(t) THEN Head(s) < Head(t)
    ELSE Less(Tail(s), Tail(t))

RECURSIVE Sorted(_)
Sorted(S) ==
    IF S = {} THEN <<>>
    ELSE LET m == CHOOSE x \in S : \A y \in S \ {x} : Less(x, y)
         IN  <<m>> \o Sorted(S \ {m})

\* the names of the container in the order the service lists them
ServerNames == Sorted({k \in KeyNames : blobs[k].present})

\* ContainerURL.ListBlobsFlatSegment(marker): a page of at most n names from the
\* marker on, and the marker of the page after it
ListBlobsFlatSegment(bucket, marker, n, fault) ==
    IF fault # "none" THEN [err |-> FaultError(fault), items |-> <<>>, next |-> EndMarker]
    ELSE IF ~ContainerExists(bucket)
    THEN [err |-> StorageError(StatusNotFound), items |-> <<>>, next |-> EndMarker]
    ELSE LET rest == SelectSeq(ServerNames,
                               LAMBDA x : marker.val = "nil" \/ ~Less(x, marker.name))
         IN  [err |-> NoErr,
              items |-> SubSeq(rest, 1, Min(n, Len(rest))),
              next |-> IF Len(rest) > n THEN MarkerAt(rest[n + 1]) ELSE EndMarker]

\* strings.Index(s, substr): the index of the first occurrence, or -1
Index(s, substr) ==
    LET at == {i \in 0..(Len(s) - Len(substr)) : SubSeq(s, i + 1, i + Len(substr)) = substr}
    IN  IF at = {} THEN -1 ELSE CHOOSE i \in at : \A j \in at : i <= j

\* Matches accepting the prefix anywhere in the name
MatchesAnywhere(name, prefix) == prefix = <<>> \/ Index(name, prefix) >= 0

\* line 122: the test a listed name must pass
Matches(name, prefix) == prefix = <<>> \/ Index(name, prefix) = 0

\* FetchFailed returning the names accumulated so far
FetchFailedKeepObjects(frame, err) ==
    [frame EXCEPT !.pc = "done", !.ret = frame.objects, !.err = err,
                  !.failedAt = frame.fetches]

\* lines 116-118: the frame after a page fetch failed
FetchFailed(frame, err) ==
    [frame EXCEPT !.pc = "done", !.ret = <<>>, !.err = err,
                  !.failedAt = frame.fetches]

\* lines 119-127: the frame after a page was fetched; the loop ends, and the
\* call returns objects, when the new marker is done
Fetched(frame, page) ==
    LET objects == frame.objects \o SelectSeq(page.items, LAMBDA x : Matches(x, frame.prefix))
    IN  IF NotDone(page.next)
        THEN [frame EXCEPT !.marker = page.next, !.objects = objects]
        ELSE [frame EXCEPT !.marker = page.next, !.objects = objects,
                           !.pc = "done", !.ret = objects]

\* lines 107-112: the call begins (one ListObjects call is followed at a time)
ListObjectsBegin(bucket, prefix) ==
    /\ ~crashed
    /\ lst.pc # "loop"
    /\ IF service = NilPtr
       THEN /\ crashed' = TRUE
            /\ last' = Panic(Call("ListObjects", bucket, prefix))
            /\ UNCHANGED lst
       ELSE /\ lst' = [IdleList EXCEPT !.pc = "loop", !.bucket = bucket,
                                       !.prefix = prefix, !.listed = ServerNames]
            /\ UNCHANGED <<crashed, last>>
    /\ UNCHANGED <<pipeline, service, allocs, blobs, written>>

\* lines 113-127: one iteration of the loop
ListObjectsFetch(n, fault) ==
    /\ ~crashed
    /\ lst.pc = "loop"
    /\ NotDone(lst.marker)
    /\ LET page == ListBlobsFlatSegment(lst.bucket, lst.marker, n, fault)
           frame == [lst EXCEPT !.fetches = lst.fetches + 1]
       IN  lst' = IF page.err # NoErr
                  THEN FetchFailed(frame, page.err)
                  ELSE Fetched(frame, page)
    /\ UNCHANGED <<pipeline, service, allocs, crashed, blobs, written, last>>

\* ------------------------------------------------------------- environment

\* another client of the storage account takes a snapshot of a blob
TakeSnapshot(key) ==
    /\ ~crashed
    /\ blobs[key].present
    /\ blobs' = [blobs EXCEPT ![key].snapshots = TRUE]
    /\ UNCHANGED <<pipeline, service, allocs, crashed, written, last, lst>>

\* ----------------------------------------------------------- specification

Init ==
    /\ pipeline = NilPtr
    /\ service = NilPtr
    /\ allocs = 0
    /\ crashed = FALSE
    /\ blobs = [k \in KeyNames |-> Absent]
    /\ written = [k \in KeyNames |-> Never]
    /\ last = NoCall
    /\ lst = IdleList

\* every call the adapter accepts, on one blob name, with every configuration
OneKey == {<<97>>}
OneBody == {<<255>>}

Next ==
    \/ \E config \in Configs, env \in EnvVals : InitCall(config, env)
    \/ \E b \in Buckets, k \in OneKey, body \in OneBody, f \in Faults : PutObject(b, k, body, f)
    \/ \E b \in Buckets, k \in OneKey, f \in Faults : ObjectExists(b, k, f)
    \/ \E b \in Buckets, k \in OneKey, f \in Faults : GetObject(b, k, f)
    \/ \E b \in Buckets, p \in {<<>>} : ListCommonPrefixes(b, p)
    \/ \E b \in Buckets, p \in {<<>>} : ListObjectsBegin(b, p)
    \/ \E n \in 1..PageSize, f \in Faults : ListObjectsFetch(n, f)
    \/ \E b \in Buckets, k \in OneKey, f \in Faults : DeleteObject(b, k, f)
    \/ \E b \in Buckets, k \in OneKey : CreateSignedURL(b, k)

Spec == Init /\ [][Next]_vars

\* the object calls of an adapter initialised once with a complete
\* configuration, on two blob names, beside a client that takes snapshots
FullConfig == ConfigOf(ValidKeys, <<97, 99>>)
TwoKeys == {<<97>>, <<97, 98>>}

NextStore ==
    \/ service = NilPtr /\ InitCall(FullConfig, "base64")
    \/ \E b \in Buckets, k \in TwoKeys, body \in Contents, f \in Faults : PutObject(b, k, body, f)
    \/ \E b \in Buckets, k \in TwoKeys, f \in Faults : ObjectExists(b, k, f)
    \/ \E b \in Buckets, k \in TwoKeys, f \in Faults : GetObject(b, k, f)
    \/ \E b \in Buckets, k \in TwoKeys, f \in Faults : DeleteObject(b, k, f)
    \/ \E k \in TwoKeys : TakeSnapshot(k)

SpecStore == Init /\ [][NextStore]_vars

\* listings of a container whose blobs (empty ones) come and go meanwhile
NextList ==
    \/ service = NilPtr /\ InitCall(FullConfig, "base64")
    \/ \E k \in KeyNames : PutObject("backups", k, <<>>, "none")
    \/ \E k \in KeyNames : DeleteObject("backups", k, "none")
    \/ \E b \in Buckets, p \in Prefixes : ListObjectsBegin(b, p)
    \/ \E n \in 1..PageSize, f \in Faults : ListObjectsFetch(n, f)

SpecList == Init /\ [][NextList]_vars

\* ------------------------------------------------------------------ claims

\* the config holds the four keys, and its key and credential resolve
Resolves(config, env) ==
    /\ ValidKeys \subseteq DOMAIN config
    /\ getStorageAccountKey(config, env).err = NoErr
    /\ NewSharedKeyCredential(Lookup(config, "storage-account"),
                              getStorageAccountKey(config, env).key) = NoErr

\* the config of the Init call recorded in last
LastConfig == ConfigOf(last.cfgKeys, last.account)

\* C1: an Init whose config holds all four required keys (its key and
\* credential resolving) returns nil and sets the handle; an Init whose config
\* lacks a required key returns an error and leaves the handle as it was.
C1_InitByRequiredKeys ==
    last.op = "Init" =>
       /\ Resolves(LastConfig, last.env) =>
             (last.returned /\ last.err = NoErr /\ service # NilPtr)
       /\ ~(ValidKeys \subseteq last.cfgKeys) =>
             (last.returned /\ last.err # NoErr /\ service = last.handle)

\* C2: on a Ready adapter, once a Put of a key has succeeded and until the
\* next Put or Delete of it, GetObject served by the service returns exactly
\* the bytes put last (an overwrite replaces them), from the first byte to the
\* end, and ObjectExists returns (true, nil); GetObject never returns a stream
\* of anything else.
C2_RoundTrip ==
    /\ (last.op = "GetObject" /\ last.returned /\ last.err = NoErr) =>
          /\ written[last.key].state \in {"put", "overwritten"}
          /\ last.body = written[last.key].content
    /\ (last.op \in {"GetObject", "ObjectExists"} /\ last.returned
        /\ last.bucket = "backups" /\ last.fault = "none"
        /\ written[last.key].state \in {"put", "overwritten"}) =>
          /\ last.err = NoErr
          /\ last.op = "GetObject" => last.body = written[last.key].content
          /\ last.op = "ObjectExists" => last.exists

C2_Witness ==
    /\ last.op = "GetObject" /\ last.returned /\ last.err = NoErr
    /\ last.body = <<255>>
    /\ written[last.key] = Wrote(<<255>>, TRUE)

\* C3: ObjectExists returns (false, nil) exactly when the probe failed with a
\* StorageError of status 404, (true, nil) exactly when the probe succeeded,
\* and for every other probe error (another status, or no status at all)
\* that error with false.
C3_ExistsMapping ==
    (last.op = "ObjectExists" /\ last.returned) =>
       /\ (~last.exists /\ last.err = NoErr) <=> (last.probe = StorageError(StatusNotFound))
       /\ (last.exists /\ last.err = NoErr) <=> (last.probe = NoErr)
       /\ (last.probe # NoErr /\ last.probe # StorageError(StatusNotFound)) =>
             (last.err = last.probe /\ ~last.exists)

C3_Witness ==
    /\ last.op = "ObjectExists" /\ last.returned
    /\ last.probe = OtherError("net")
    /\ last.err = OtherError("net") /\ ~last.exists

\* name starts with prefix, as a literal string prefix
HasPrefix(name, prefix) ==
    /\ Len(prefix) <= Len(name)
    /\ SubSeq(name, 1, Len(prefix)) = prefix

\* C4: a ListObjects call no page fetch of which failed (on a container no
\* Put or Delete changed meanwhile) returns exactly the names of the container
\* that start with the prefix, in the service's order, whatever the pages: the
\* loop runs while the marker is not done and the call returns once it is.
C4_ListPrefix ==
    /\ (lst.pc = "done" /\ lst.err = NoErr) => (~NotDone(lst.marker) /\ lst.fetches >= 1)
    /\ lst.pc = "loop" => NotDone(lst.marker)
    /\ (lst.pc = "done" /\ lst.err = NoErr /\ ~lst.dirty) =>
          lst.ret = SelectSeq(lst.listed, LAMBDA x : HasPrefix(x, lst.prefix))

C4_Witness ==
    /\ lst.pc = "done" /\ lst.err = NoErr /\ ~lst.dirty
    /\ lst.fetches >= 2
    /\ lst.prefix = <<97>>
    /\ Len(lst.listed) = 3
    /\ Len(lst.ret) = 2

\* C5: once a Delete of a key has succeeded and until the next successful Put
\* of it, ObjectExists served by the service returns (false, nil) and
\* GetObject returns an error; a Delete of a key that does not exist returns
\* an error.
C5_AfterDelete ==
    /\ (last.op = "ObjectExists" /\ last.returned /\ last.fault = "none"
        /\ written[last.key].state = "deleted") =>
          (~last.exists /\ last.err = NoErr)
    /\ (last.op = "GetObject" /\ last.returned
        /\ written[last.key].state = "deleted") =>
          last.err # NoErr
    /\ (last.op = "DeleteObject" /\ last.returned /\ ~last.had) =>
          last.err # NoErr

C5_Witness ==
    /\ last.op = "ObjectExists" /\ last.returned /\ last.bucket = "backups"
    /\ written[last.key].state = "deleted"
    /\ ~last.exists /\ last.err = NoErr

\* C6: while the handle is nil, every call other than Init returns an error,
\* without calling the service and without a success result.
C6_UninitializedFailsFast ==
    (last.op \notin {"none", "Init"} /\ last.handle = NilPtr) =>
       (last.returned /\ last.err # NoErr /\ ~last.remote)

\* C7: a DeleteObject of an existing blob, with or without snapshots, that
\* the service serves returns nil and leaves neither the blob nor a snapshot.
C7_DeleteWithSnapshots ==
    (last.op = "DeleteObject" /\ last.returned /\ last.bucket = "backups"
     /\ last.fault = "none" /\ last.had) =>
       /\ last.err = NoErr
       /\ ~blobs[last.key].present
       /\ ~blobs[last.key].snapshots

\* C8: an Init one of whose steps fails (a key outside the accepted ones, the
\* account key not resolved, the credential not built, the endpoint URL not
\* parsed) returns an error and leaves the handle as it was; it does not
\* panic.
C8_InitFailsOnAnyStep ==
    (/\ last.op = "Init"
     /\ \/ ValidateObjectStoreConfigKeys(LastConfig, ValidKeys) # NoErr
        \/ getStorageAccountKey(LastConfig, last.env).err # NoErr
        \/ NewSharedKeyCredential(last.account,
                                  getStorageAccountKey(LastConfig, last.env).key) # NoErr
        \/ UrlParse(BlobURL(last.account)).err # NoErr)
    => (/\ last.returned /\ last.err # NoErr /\ ~crashed
        /\ service = last.handle /\ pipeline = last.handle)

\* C9: once a page fetch of a ListObjects call has failed, the call has
\* returned that error with no names (those of the earlier pages dropped) and
\* fetches no further page; it returns an error only then.
C9_ListFailure ==
    /\ lst.failedAt > 0 =>
          /\ lst.pc = "done" /\ lst.err # NoErr
          /\ lst.ret = <<>>
          /\ lst.fetches = lst.failedAt
    /\ lst.err # NoErr => lst.failedAt > 0

C9_Witness ==
    /\ lst.pc = "done" /\ lst.err # NoErr
    /\ lst.failedAt >= 2
    /\ Len(lst.objects) >= 1
    /\ lst.ret = <<>>

\* C10 as stated: once set, the handle is never changed by a later call.
C10_HandleNeverChanges ==
    [][service # NilPtr => (service' = service /\ pipeline' = pipeline)]_vars

\* C10 amended: the handle is changed by a successful Init and by no other
\* call; a later Init replaces it with the handle it allocates.
C10_HandleSetOnlyByInit ==
    [][(service' # service \/ pipeline' # pipeline) =>
          /\ last'.op = "Init" /\ last'.returned /\ last'.err = NoErr
          /\ service' = allocs' /\ pipeline' = allocs' /\ allocs' = allocs + 1]_vars

C10_Witness ==
    /\ service # NilPtr /\ service = pipeline
    /\ last.op = "DeleteObject" /\ last.returned /\ last.handle # NilPtr

====
